---- MODULE Spec2Model ----
(***************************************************************************)
(* Mirror - trending topics analyzer.                                      *)
(*                                                                         *)
(* Three state machines over one set of variables:                         *)
(*   Spec     the request handlers of api/routes.py driving                *)
(*            TrendingAnalyzer.analyze_trending_topic (fan-out of one      *)
(*            fetch per platform, gather, positional result processing,    *)
(*            weighted score, summary, response);                          *)
(*   SpecNLP  NLPQueryParser: parse_query, build_github_query,             *)
(*            get_query_explanation;                                       *)
(*   SpecSvc  GitHubService: search_trending_repos, get_top_contributors;  *)
(*            RedditService: get_trending_keywords.                        *)
(* Text is modelled by TLA+ strings, character by character; the regular   *)
(* expressions of nlp_parser.py are interpreted by a small backtracking    *)
(* matcher that follows Python's re semantics (leftmost match, greedy      *)
(* quantifiers, ordered alternatives).                                     *)
(***************************************************************************)
EXTENDS Integers, Sequences, FiniteSets, TLC

(***************************************************************************)
(* Bounds of the model                                                     *)
(***************************************************************************)
\* largest max_results_per_platform a request carries (the program allows 1..100)
MaxCap == 2
\* largest number of phrases joined into one natural-language query
MaxPhrases == 2
\* largest number of items one source has to offer for a query
MaxItems == 2

(***************************************************************************)
(* Optional values: None is the empty tuple, a present value a 1-tuple     *)
(***************************************************************************)
None == <<>>
Some(x) == <<x>>

(***************************************************************************)
(* Python evaluates the right-hand side of an assignment, or the argument  *)
(* of a call, once and binds the value to a name: Bind(v, F) is F applied  *)
(* to the value of v.                                                      *)
(***************************************************************************)
Bind(v, F(_)) == CHOOSE r \in {F(x) : x \in {v}} : TRUE

(***************************************************************************)
(* Characters and strings                                                  *)
(***************************************************************************)
Ch(s, i) == SubSeq(s, i, i)

CharsOf(s) == {Ch(s, i) : i \in 1..Len(s)}

LOWER == "abcdefghijklmnopqrstuvwxyz"
UPPER == "ABCDEFGHIJKLMNOPQRSTUVWXYZ"
DIGITS == "0123456789"

\* \d
Digit == CharsOf(DIGITS)
\* \w
Word == CharsOf(LOWER) \cup CharsOf(UPPER) \cup Digit \cup {"_"}
\* \s
Space == {" ", "\t", "\n"}

\* 1-based index of character c in string s, 0 when absent
IndexOf(c, s) ==
    IF \E i \in 1..Len(s) : Ch(s, i) = c
    THEN CHOOSE i \in 1..Len(s) : Ch(s, i) = c
    ELSE 0

LowerCh(c) == IF c \in CharsOf(UPPER) THEN Ch(LOWER, IndexOf(c, UPPER)) ELSE c

RECURSIVE lower(_)
\* str.lower(), character by character (the string is halved to keep the
\* evaluation shallow)
lower(s) ==
    Bind(s, LAMBDA t :
        IF t = "" THEN ""
        ELSE IF Len(t) = 1 THEN LowerCh(t)
        ELSE lower(SubSeq(t, 1, Len(t) \div 2)) \o lower(SubSeq(t, (Len(t) \div 2) + 1, Len(t))))

RECURSIVE lstrip(_)
lstrip(s) == Bind(s, LAMBDA t : IF t # "" /\ Head(t) \in Space THEN lstrip(Tail(t)) ELSE t)

RECURSIVE rstrip(_)
rstrip(s) ==
    Bind(s, LAMBDA t :
        IF t # "" /\ Ch(t, Len(t)) \in Space THEN rstrip(SubSeq(t, 1, Len(t) - 1)) ELSE t)

\* str.strip()
strip(s) == rstrip(lstrip(s))

\* int(s) accepts s: a non-empty string of decimal digits (anything else that a
\* pattern of the library could capture makes int() raise ValueError)
int_ok(s) == s # "" /\ \A i \in 1..Len(s) : Ch(s, i) \in Digit

RECURSIVE int(_)
\* int(str) of a string of decimal digits
int(s) ==
    Bind(s, LAMBDA t :
        IF t = "" THEN 0
        ELSE 10 * int(SubSeq(t, 1, Len(t) - 1)) + (IndexOf(Ch(t, Len(t)), DIGITS) - 1))

RECURSIVE str(_)
\* str(int) / f"{n}" of a non-negative integer
str(n) ==
    Bind(n, LAMBDA v :
        IF v < 10 THEN Ch(DIGITS, v + 1) ELSE str(v \div 10) \o Ch(DIGITS, (v % 10) + 1))

RECURSIVE join(_, _)
\* sep.join(parts)
join(sep, parts) ==
    Bind(parts, LAMBDA ps :
        IF ps = <<>> THEN ""
        ELSE IF Len(ps) = 1 THEN ps[1]
        ELSE ps[1] \o sep \o join(sep, Tail(ps)))

(***************************************************************************)
(* Regular expressions (Python re semantics)                               *)
(*                                                                         *)
(* A pattern is a record [alts, g]: alts is the ordered list of            *)
(* alternatives, each a sequence of atoms; g = <<a, b>> says that capture  *)
(* group 1 spans atoms a..b (<<1, 0>>: no group).  Atoms:                  *)
(*   lit  a literal string                                                 *)
(*   rep  a character class repeated lo..hi times, greedy (hi = -1: no     *)
(*        upper limit)                                                     *)
(*   hw   \w+(?:-\w+)*                                                     *)
(*   bos  ^          eos  $                                                *)
(***************************************************************************)
Lit(s) == [k |-> "lit", s |-> s, set |-> {}, lo |-> 0, hi |-> 0]
Rep(S, lo, hi) == [k |-> "rep", s |-> "", set |-> S, lo |-> lo, hi |-> hi]
Plus(S) == Rep(S, 1, -1)
Star(S) == Rep(S, 0, -1)
Opt(c) == Rep({c}, 0, 1)
HW == [k |-> "hw", s |-> "", set |-> Word \cup {"-"}, lo |-> 1, hi |-> -1]
Bos == [k |-> "bos", s |-> "", set |-> {}, lo |-> 0, hi |-> 0]
Eos == [k |-> "eos", s |-> "", set |-> {}, lo |-> 0, hi |-> 0]

Re(atoms, g) == [alts |-> <<atoms>>, g |-> g]
ReAlt(alts, g) == [alts |-> alts, g |-> g]
NoGroup == <<1, 0>>

RECURSIVE RunLen(_, _, _, _)
\* number of consecutive characters of text from pos that lie in set, at most hi
RunLen(text, pos, set, hi) ==
    IF hi = 0 \/ pos > Len(text) \/ Ch(text, pos) \notin set THEN 0
    ELSE 1 + RunLen(text, pos + 1, set, hi - 1)

\* text[pos .. pos+n-1] is a match of \w+(?:-\w+)*
HWValid(text, pos, n) ==
    /\ n >= 1
    /\ Ch(text, pos) \in Word
    /\ Ch(text, pos + n - 1) \in Word
    /\ \A j \in pos..(pos + n - 2) : ~(Ch(text, j) = "-" /\ Ch(text, j + 1) = "-")

Cons(pos, r) == IF r = <<>> THEN <<>> ELSE <<pos>> \o r

RECURSIVE MatchAt(_, _, _, _)
RECURSIVE TryRep(_, _, _, _, _)
RECURSIVE TryHW(_, _, _, _, _)

\* Match atoms i.. of one alternative at position pos.  The result is <<>> when
\* there is no match, else the boundaries <<start of atom i, ..., end of match>>.
MatchAt(atoms, i, text, pos) ==
    IF i > Len(atoms) THEN <<pos>>
    ELSE LET a == atoms[i] IN
         CASE a.k = "lit" ->
                IF /\ pos + Len(a.s) - 1 <= Len(text)
                   /\ SubSeq(text, pos, pos + Len(a.s) - 1) = a.s
                THEN Bind(MatchAt(atoms, i + 1, text, pos + Len(a.s)),
                          LAMBDA r : Cons(pos, r))
                ELSE <<>>
           [] a.k = "rep" ->
                Bind(RunLen(text, pos, a.set, a.hi), LAMBDA n : TryRep(atoms, i, text, pos, n))
           [] a.k = "hw" ->
                Bind(RunLen(text, pos, a.set, a.hi), LAMBDA n : TryHW(atoms, i, text, pos, n))
           [] a.k = "bos" ->
                IF pos = 1
                THEN Bind(MatchAt(atoms, i + 1, text, pos), LAMBDA r : Cons(pos, r))
                ELSE <<>>
           [] a.k = "eos" ->
                IF pos = Len(text) + 1
                THEN Bind(MatchAt(atoms, i + 1, text, pos), LAMBDA r : Cons(pos, r))
                ELSE <<>>

\* greedy repetition: longest run first, then backtrack one character at a time
TryRep(atoms, i, text, pos, n) ==
    IF n < atoms[i].lo THEN <<>>
    ELSE Bind(MatchAt(atoms, i + 1, text, pos + n), LAMBDA r :
             IF r # <<>> THEN <<pos>> \o r ELSE TryRep(atoms, i, text, pos, n - 1))

TryHW(atoms, i, text, pos, n) ==
    IF n < 1 THEN <<>>
    ELSE Bind(IF HWValid(text, pos, n) THEN MatchAt(atoms, i + 1, text, pos + n) ELSE <<>>,
              LAMBDA r : IF r # <<>> THEN <<pos>> \o r ELSE TryHW(atoms, i, text, pos, n - 1))

RECURSIVE FirstAlt(_, _, _, _)
\* the alternatives are tried in order at one position
FirstAlt(alts, k, text, pos) ==
    IF k > Len(alts) THEN <<>>
    ELSE Bind(MatchAt(alts[k], 1, text, pos), LAMBDA m :
             IF m # <<>> THEN m ELSE FirstAlt(alts, k + 1, text, pos))

\* leftmost match at or after pos (a match starts with its start position)
SearchFrom(re, text, pos) ==
    Bind({FirstAlt(re.alts, 1, text, p) : p \in pos..(Len(text) + 1)} \ {<<>>},
         LAMBDA ms : IF ms = {} THEN <<>> ELSE CHOOSE m \in ms : \A o \in ms : m[1] <= o[1])

\* re.search(pattern, text): the boundaries of the match, <<>> for None
re_search(re, text) ==
    Bind(re, LAMBDA r : Bind(text, LAMBDA t : SearchFrom(r, t, 1)))

\* re.match(pattern, text)
re_match(re, text) ==
    Bind(re, LAMBDA r : Bind(text, LAMBDA t : FirstAlt(r.alts, 1, t, 1)))

\* match.group(1)
group1(re, text, m) == SubSeq(text, m[re.g[1]], m[re.g[2] + 1] - 1)

MatchStart(m) == m[1]
MatchEnd(m) == m[Len(m)]

RECURSIVE SubFrom(_, _, _, _)
SubFrom(re, repl, text, pos) ==
    Bind(SearchFrom(re, text, pos), LAMBDA m :
        IF m = <<>> THEN SubSeq(text, pos, Len(text))
        ELSE SubSeq(text, pos, MatchStart(m) - 1) \o repl
                 \o SubFrom(re, repl, text, MatchEnd(m)))

\* re.sub(pattern, repl, text)
re_sub(re, repl, text) ==
    Bind(re, LAMBDA r : Bind(text, LAMBDA t : SubFrom(r, repl, t, 1)))

RECURSIVE FindallFrom(_, _, _)
FindallFrom(re, text, pos) ==
    Bind(SearchFrom(re, text, pos), LAMBDA m :
        IF m = <<>> THEN <<>>
        ELSE <<group1(re, text, m)>> \o FindallFrom(re, text, MatchEnd(m)))

\* re.findall(pattern, text) for a pattern with one group
re_findall(re, text) ==
    Bind(re, LAMBDA r : Bind(text, LAMBDA t : FindallFrom(r, t, 1)))

\* needle in text
contains(text, needle) == re_search(Re(<<Lit(needle)>>, NoGroup), text) # <<>>

\* text.replace(old, new)
replace(text, old, new) == re_sub(Re(<<Lit(old)>>, NoGroup), new, text)

RECURSIVE split(_)
\* str.split(): the maximal runs of non-whitespace characters
split(s) ==
    Bind(lstrip(s), LAMBDA t :
        IF t = "" THEN <<>>
        ELSE Bind(RunLen(t, 1, CharsOf(t) \ Space, -1), LAMBDA n :
                 <<SubSeq(t, 1, n)>> \o split(SubSeq(t, n + 1, Len(t)))))

(***************************************************************************)
(* Pattern library (NLPQueryParser.__init__)                               *)
(***************************************************************************)
\* numeric_patterns without its second pattern, (\d+)\s*\+?\s*<noun>s?
numeric_patterns_without_plus(noun) == <<
    Re(<<Lit("more than "), Plus(Digit), Star(Space), Lit(noun), Opt("s")>>, <<2, 2>>),
    Re(<<Lit("at least "), Plus(Digit), Star(Space), Lit(noun), Opt("s")>>, <<2, 2>>),
    Re(<<Lit("minimum "), Plus(Digit), Star(Space), Lit(noun), Opt("s")>>, <<2, 2>>),
    Re(<<Plus(Digit), Star(Space), Lit(noun), Opt("s"), Lit(" or more")>>, <<1, 1>>) >>

\* the five phrasings of a numeric lower bound on <noun>s
numeric_patterns(noun) == <<
    \* more than (\d+)\s*<noun>s?
    Re(<<Lit("more than "), Plus(Digit), Star(Space), Lit(noun), Opt("s")>>, <<2, 2>>),
    \* (\d+)\s*\+?\s*<noun>s?
    Re(<<Plus(Digit), Star(Space), Opt("+"), Star(Space), Lit(noun), Opt("s")>>, <<1, 1>>),
    \* at least (\d+)\s*<noun>s?
    Re(<<Lit("at least "), Plus(Digit), Star(Space), Lit(noun), Opt("s")>>, <<2, 2>>),
    \* minimum (\d+)\s*<noun>s?
    Re(<<Lit("minimum "), Plus(Digit), Star(Space), Lit(noun), Opt("s")>>, <<2, 2>>),
    \* (\d+)\s*<noun>s? or more
    Re(<<Plus(Digit), Star(Space), Lit(noun), Opt("s"), Lit(" or more")>>, <<1, 1>>) >>

star_patterns == numeric_patterns("star")
fork_patterns == numeric_patterns("fork")
contributor_patterns == numeric_patterns("contributor")

\* language_patterns with a sixth pattern, (\w+) libraries
language_patterns_with_libraries == <<
    Re(<<Lit("in "), Plus(Word)>>, <<2, 2>>),
    Re(<<Plus(Word), Lit(" project"), Opt("s")>>, <<1, 1>>),
    Re(<<Plus(Word), Lit(" repositorie"), Opt("s")>>, <<1, 1>>),
    Re(<<Plus(Word), Lit(" code")>>, <<1, 1>>),
    Re(<<Plus(Word), Lit(" language")>>, <<1, 1>>),
    Re(<<Plus(Word), Lit(" libraries")>>, <<1, 1>>) >>

language_patterns == <<
    \* in (\w+)
    Re(<<Lit("in "), Plus(Word)>>, <<2, 2>>),
    \* (\w+) projects?
    Re(<<Plus(Word), Lit(" project"), Opt("s")>>, <<1, 1>>),
    \* (\w+) repositories?
    Re(<<Plus(Word), Lit(" repositorie"), Opt("s")>>, <<1, 1>>),
    \* (\w+) code
    Re(<<Plus(Word), Lit(" code")>>, <<1, 1>>),
    \* (\w+) language
    Re(<<Plus(Word), Lit(" language")>>, <<1, 1>>) >>

\* <verb> (?:in|after|since) <date atoms>, the date atoms being group 1
dated(verb, date) ==
    ReAlt(<< <<Lit(verb \o " in ")>> \o date,
             <<Lit(verb \o " after ")>> \o date,
             <<Lit(verb \o " since ")>> \o date >>, <<2, Len(date) + 1>>)

Year == <<Rep(Digit, 4, 4)>>
MonthYear == <<Plus(Word), Lit(" "), Rep(Digit, 4, 4)>>

date_patterns == <<
    \* created (?:in|after|since) (\d{4})
    dated("created", Year),
    \* created (?:in|after|since) (\w+ \d{4})
    dated("created", MonthYear),
    \* updated (?:in|after|since) (\d{4})
    dated("updated", Year),
    \* updated (?:in|after|since) (\w+ \d{4})
    dated("updated", MonthYear),
    \* from (\d{4})
    Re(<<Lit("from "), Rep(Digit, 4, 4)>>, <<2, 2>>),
    \* since (\d{4})
    Re(<<Lit("since "), Rep(Digit, 4, 4)>>, <<2, 2>>) >>

topic_patterns == <<
    \* with (\w+(?:-\w+)*)
    Re(<<Lit("with "), HW>>, <<2, 2>>),
    \* using (\w+(?:-\w+)*)
    Re(<<Lit("using "), HW>>, <<2, 2>>),
    \* (\w+(?:-\w+)*) integration
    Re(<<HW, Lit(" integration")>>, <<1, 1>>),
    \* (\w+(?:-\w+)*) support
    Re(<<HW, Lit(" support")>>, <<1, 1>>),
    \* (\w+(?:-\w+)*) plugin
    Re(<<HW, Lit(" plugin")>>, <<1, 1>>) >>

boolean_patterns == <<
    [re |-> Re(<<Lit("with issue"), Opt("s")>>, NoGroup), field |-> "has_issues", value |-> TRUE],
    [re |-> Re(<<Lit("without issue"), Opt("s")>>, NoGroup), field |-> "has_issues", value |-> FALSE],
    [re |-> Re(<<Lit("with wiki")>>, NoGroup), field |-> "has_wiki", value |-> TRUE],
    [re |-> Re(<<Lit("without wiki")>>, NoGroup), field |-> "has_wiki", value |-> FALSE],
    [re |-> Re(<<Lit("archived")>>, NoGroup), field |-> "is_archived", value |-> TRUE],
    [re |-> Re(<<Lit("not archived")>>, NoGroup), field |-> "is_archived", value |-> FALSE],
    [re |-> Re(<<Lit("forked")>>, NoGroup), field |-> "is_fork", value |-> TRUE],
    [re |-> Re(<<Lit("not forked")>>, NoGroup), field |-> "is_fork", value |-> FALSE],
    [re |-> Re(<<Lit("original")>>, NoGroup), field |-> "is_fork", value |-> FALSE] >>

(***************************************************************************)
(* ParsedQuery                                                             *)
(***************************************************************************)
\* ParsedQuery(base_query = q) after __post_init__
ParsedQuery(q) ==
    [base_query |-> q,
     min_stars |-> None, max_stars |-> None,
     min_forks |-> None, max_forks |-> None,
     min_contributors |-> None, max_contributors |-> None,
     language |-> None,
     created_after |-> None, created_before |-> None, updated_after |-> None,
     topics |-> <<>>,
     has_issues |-> None, has_wiki |-> None, is_archived |-> None, is_fork |-> None,
     search_in |-> <<"name", "description", "readme", "topics">>]

(***************************************************************************)
(* NLPQueryParser                                                          *)
(***************************************************************************)
RECURSIVE SubAll(_, _, _)
\* query = re.sub(p, '', query) for the patterns res[k..], in order
SubAll(res, k, query) ==
    IF k > Len(res) THEN query
    ELSE Bind(re_sub(res[k], "", query), LAMBDA q : SubAll(res, k + 1, q))

\* The patterns _extract_base_query removes, in the order of its re.sub calls:
\* they are the pattern tables above, written out again without their groups.
base_query_removals ==
    star_patterns \o fork_patterns \o contributor_patterns \o language_patterns
    \o date_patterns \o topic_patterns
    \o [k \in 1..Len(boolean_patterns) |-> boolean_patterns[k].re]

\* repos?|repositories?|projects?|code between the atoms before and after
filler(before, after) ==
    ReAlt(<< before \o <<Lit("repo"), Opt("s")>> \o after,
             before \o <<Lit("repositorie"), Opt("s")>> \o after,
             before \o <<Lit("project"), Opt("s")>> \o after,
             before \o <<Lit("code")>> \o after >>, NoGroup)

_extract_base_query(query) ==
    Bind(SubAll(base_query_removals, 1, query), LAMBDA q1 :
    \* query = re.sub(r'\s+', ' ', query).strip()
    Bind(strip(re_sub(Re(<<Plus(Space)>>, NoGroup), " ", q1)), LAMBDA q2 :
    \* query = re.sub(r'^(repos?|repositories?|projects?|code)\s+', '', query)
    Bind(re_sub(filler(<<Bos>>, <<Plus(Space)>>), "", q2), LAMBDA q3 :
    \* query = re.sub(r'\s+(repos?|repositories?|projects?|code)$', '', query)
    Bind(re_sub(filler(<<Plus(Space)>>, <<Eos>>), "", q3), LAMBDA q4 :
    strip(q4)))))

RECURSIVE first_capture(_, _, _)
\* for pattern in patterns: match = re.search(pattern, query);
\* if match: ... match.group(1) ...; return None
first_capture(patterns, k, query) ==
    IF k > Len(patterns) THEN None
    ELSE Bind(re_search(patterns[k], query), LAMBDA m :
             IF m # <<>> THEN Some(group1(patterns[k], query, m))
             ELSE first_capture(patterns, k + 1, query))

\* return int(match.group(1)) / return None
first_int(patterns, query) ==
    Bind(first_capture(patterns, 1, query), LAMBDA c :
        IF c = None THEN None ELSE Some(int(c[1])))

\* int(match.group(1)) raises ValueError
first_int_raises(patterns, query) ==
    Bind(first_capture(patterns, 1, query), LAMBDA c : c # None /\ ~int_ok(c[1]))

_extract_min_stars(query) == first_int(star_patterns, query)
_extract_min_forks(query) == first_int(fork_patterns, query)
_extract_min_contributors(query) == first_int(contributor_patterns, query)

\* lang_map.get(lang): a token outside the table gives None
lang_map_without_default(lang) ==
    CASE lang = "js" -> "javascript"
      [] lang = "ts" -> "typescript"
      [] lang = "py" -> "python"
      [] lang = "rb" -> "ruby"
      [] lang = "cpp" -> "c++"
      [] lang = "csharp" -> "c#"
      [] lang \in {"php", "java", "go", "rust", "swift", "kotlin", "scala"} -> lang
      [] OTHER -> "None"

lang_map(lang) ==
    CASE lang = "js" -> "javascript"
      [] lang = "ts" -> "typescript"
      [] lang = "py" -> "python"
      [] lang = "rb" -> "ruby"
      [] lang = "cpp" -> "c++"
      [] lang = "csharp" -> "c#"
      [] OTHER -> lang

RECURSIVE first_language(_, _)
first_language(k, query) ==
    IF k > Len(language_patterns) THEN None
    ELSE Bind(re_search(language_patterns[k], query), LAMBDA m :
             IF m # <<>>
             THEN Bind(lower(group1(language_patterns[k], query, m)),
                       LAMBDA lang : Some(lang_map(lang)))
             ELSE first_language(k + 1, query))

_extract_language(query) == first_language(1, query)

month_names ==
    <<"jan", "feb", "mar", "apr", "may", "jun", "jul", "aug", "sep", "oct", "nov", "dec">>

\* month_map.get(key), formatted into the date: None renders as "None"
month_map_without_default(key) ==
    Bind(key, LAMBDA name :
        IF \E i \in 1..Len(month_names) : month_names[i] = name
        THEN Bind(CHOOSE i \in 1..Len(month_names) : month_names[i] = name, LAMBDA i :
                 IF i < 10 THEN "0" \o str(i) ELSE str(i))
        ELSE "None")

\* month_map.get(key, '01')
month_map(key) ==
    Bind(key, LAMBDA name :
        IF \E i \in 1..Len(month_names) : month_names[i] = name
        THEN Bind(CHOOSE i \in 1..Len(month_names) : month_names[i] = name, LAMBDA i :
                 IF i < 10 THEN "0" \o str(i) ELSE str(i))
        ELSE "01")

RECURSIVE first_date(_, _)
first_date(k, query) ==
    IF k > Len(date_patterns) THEN None
    ELSE Bind(re_search(date_patterns[k], query), LAMBDA m :
         IF m = <<>> THEN first_date(k + 1, query)
         ELSE Bind(group1(date_patterns[k], query, m), LAMBDA date_str :
              IF re_match(Re(Year, NoGroup), date_str) # <<>>
              THEN Some(date_str \o "-01-01")
              ELSE IF re_match(Re(MonthYear, NoGroup), date_str) # <<>>
                   THEN Bind(split(date_str), LAMBDA parts :
                        IF Len(parts) = 2
                        THEN Some(parts[2] \o "-"
                                  \o month_map(lower(SubSeq(parts[1], 1,
                                         IF Len(parts[1]) < 3 THEN Len(parts[1]) ELSE 3)))
                                  \o "-01")
                        ELSE first_date(k + 1, query))
                   ELSE first_date(k + 1, query)))

_extract_created_date(query) == first_date(1, query)

_extract_updated_date(query) == _extract_created_date(replace(query, "created", "updated"))

\* for match in matches: topics.append(match), without "if match not in topics"
extend_keeping_duplicates(topics, matches) == topics \o matches

RECURSIVE extend_unique(_, _)
\* for match in matches: if match not in topics: topics.append(match)
extend_unique(topics, matches) ==
    IF matches = <<>> THEN topics
    ELSE Bind(IF \E i \in 1..Len(topics) : topics[i] = Head(matches) THEN topics
              ELSE Append(topics, Head(matches)),
              LAMBDA extended : extend_unique(extended, Tail(matches)))

RECURSIVE collect_topics(_, _, _)
collect_topics(topics, k, query) ==
    IF k > Len(topic_patterns) THEN topics
    ELSE Bind(re_findall(topic_patterns[k], query), LAMBDA matches :
         Bind(extend_unique(topics, matches), LAMBDA extended :
             collect_topics(extended, k + 1, query)))

_extract_topics(query) == collect_topics(<<>>, 1, query)

\* _extract_search_scope without its final "return ['name', 'description', ...]"
_extract_search_scope_without_default(query) ==
    IF contains(query, "name only") \/ contains(query, "title only") THEN <<"name">>
    ELSE IF contains(query, "description only") THEN <<"description">>
    ELSE IF contains(query, "readme only") THEN <<"readme">>
    ELSE IF contains(query, "topics only") THEN <<"topics">>
    ELSE <<>>

_extract_search_scope(query) ==
    IF contains(query, "name only") \/ contains(query, "title only") THEN <<"name">>
    ELSE IF contains(query, "description only") THEN <<"description">>
    ELSE IF contains(query, "readme only") THEN <<"readme">>
    ELSE IF contains(query, "topics only") THEN <<"topics">>
    ELSE <<"name", "description", "readme", "topics">>

RECURSIVE set_flags_first_wins(_, _, _)
\* set_flags where a flag that is already set is not overwritten
set_flags_first_wins(parsed, k, query) ==
    IF k > Len(boolean_patterns) THEN parsed
    ELSE LET b == boolean_patterns[k] IN
         Bind(IF re_search(b.re, query) # <<>> /\ parsed[b.field] = None
              THEN [parsed EXCEPT ![b.field] = Some(b.value)]
              ELSE parsed,
              LAMBDA updated : set_flags_first_wins(updated, k + 1, query))

RECURSIVE set_flags(_, _, _)
\* for pattern, field, value in self.boolean_patterns:
\*     if re.search(pattern, query): setattr(parsed, field, value)
set_flags(parsed, k, query) ==
    IF k > Len(boolean_patterns) THEN parsed
    ELSE LET b == boolean_patterns[k] IN
         Bind(IF re_search(b.re, query) # <<>>
              THEN [parsed EXCEPT ![b.field] = Some(b.value)]
              ELSE parsed,
              LAMBDA updated : set_flags(updated, k + 1, query))

parse_query(raw) ==
    Bind(strip(lower(raw)), LAMBDA query :
    Bind([ParsedQuery(query) EXCEPT
            !.base_query = _extract_base_query(query),
            !.min_stars = _extract_min_stars(query),
            !.min_forks = _extract_min_forks(query),
            !.min_contributors = _extract_min_contributors(query),
            !.language = _extract_language(query),
            !.created_after = _extract_created_date(query),
            !.updated_after = _extract_updated_date(query),
            !.topics = _extract_topics(query)], LAMBDA parsed :
    [set_flags(parsed, 1, query) EXCEPT !.search_in = _extract_search_scope(query)]))

\* parse_query raises: the only operation of it that can fail is int()
parse_query_raises(raw) ==
    Bind(strip(lower(raw)), LAMBDA query :
        \/ first_int_raises(star_patterns, query)
        \/ first_int_raises(fork_patterns, query)
        \/ first_int_raises(contributor_patterns, query))

\* truthiness of an Optional[int]: None and 0 are falsy
TruthyInt(o) == o # None /\ o[1] # 0
\* truthiness of an Optional[str]: None and "" are falsy
TruthyStr(o) == o # None /\ o[1] # ""

RECURSIVE topic_parts(_)
topic_parts(topics) ==
    Bind(topics, LAMBDA ts :
        IF ts = <<>> THEN <<>> ELSE <<"topic:" \o Head(ts)>> \o topic_parts(Tail(ts)))

build_github_query(parsed_query) ==
    Bind(parsed_query, LAMBDA parsed :
    LET part(cond, text) == IF cond THEN <<text>> ELSE <<>>
        num(o) == IF TruthyInt(o) THEN str(o[1]) ELSE ""
        txt(o) == IF TruthyStr(o) THEN o[1] ELSE ""
        flag(o, yes, no) == IF o = None THEN <<>> ELSE IF o[1] THEN <<yes>> ELSE <<no>>
        query_parts ==
            part(parsed.base_query # "", parsed.base_query)
            \o part(TruthyStr(parsed.language), "language:" \o txt(parsed.language))
            \o part(TruthyInt(parsed.min_stars), "stars:>=" \o num(parsed.min_stars))
            \o part(TruthyInt(parsed.max_stars), "stars:<=" \o num(parsed.max_stars))
            \o part(TruthyInt(parsed.min_forks), "forks:>=" \o num(parsed.min_forks))
            \o part(TruthyInt(parsed.max_forks), "forks:<=" \o num(parsed.max_forks))
            \o part(TruthyInt(parsed.min_contributors),
                    "contributors:>=" \o num(parsed.min_contributors))
            \o part(TruthyInt(parsed.max_contributors),
                    "contributors:<=" \o num(parsed.max_contributors))
            \o part(TruthyStr(parsed.created_after), "created:>=" \o txt(parsed.created_after))
            \o part(TruthyStr(parsed.updated_after), "pushed:>=" \o txt(parsed.updated_after))
            \o flag(parsed.has_issues, "has:issues", "no:issues")
            \o flag(parsed.has_wiki, "has:wiki", "no:wiki")
            \o flag(parsed.is_archived, "archived:true", "archived:false")
            \o flag(parsed.is_fork, "fork:true", "fork:false")
            \o topic_parts(parsed.topics)
    IN join(" ", query_parts))

\* the fields get_query_explanation reports, with the truthiness test of each
get_query_explanation(parsed_query) ==
    Bind(parsed_query, LAMBDA parsed :
    LET reported ==
            {k \in {"min_stars", "min_forks", "min_contributors"} : TruthyInt(parsed[k])}
            \cup {k \in {"language", "created_after", "updated_after"} : TruthyStr(parsed[k])}
            \cup {k \in {"topics"} : parsed[k] # <<>>}
            \cup {k \in {"has_issues", "has_wiki", "is_archived", "is_fork"} :
                     parsed[k] # None}
    IN [original_query |-> parsed.base_query,
        parsed_filters |-> [k \in reported |->
                               IF k = "topics" THEN parsed[k] ELSE parsed[k][1]],
        github_query |-> build_github_query(parsed),
        search_scope |-> parsed.search_in])

(***************************************************************************)
(* Scores are Python floats; the model computes them as exact fractions    *)
(* <<numerator, denominator>> in lowest terms, denominator > 0.            *)
(***************************************************************************)
RECURSIVE GCD(_, _)
GCD(a, b) == IF b = 0 THEN a ELSE GCD(b, a % b)

Abs(n) == IF n < 0 THEN 0 - n ELSE n
Min(a, b) == IF a <= b THEN a ELSE b

Rat(n, d) == LET g == GCD(Abs(n), d) IN <<n \div g, d \div g>>
Zero == <<0, 1>>
RAdd(a, b) == Rat(a[1] * b[2] + b[1] * a[2], a[2] * b[2])
RMul(a, b) == Rat(a[1] * b[1], a[2] * b[2])
\* a / b for b > 0
RDiv(a, b) == Rat(a[1] * b[2], a[2] * b[1])
RLe(a, b) == a[1] * b[2] <= b[1] * a[2]
RLt(a, b) == a[1] * b[2] < b[1] * a[2]
RMin(a, b) == IF RLe(a, b) THEN a ELSE b

(***************************************************************************)
(* models/trending.py                                                      *)
(***************************************************************************)
\* PlatformType, in the order analyze_trending_topic appends the tasks
PlatformOrder == <<"github", "twitter", "reddit">>
PlatformType == {PlatformOrder[i] : i \in 1..Len(PlatformOrder)}

\* A value a data slot or a task result can hold: a list of items, the
\* coroutine object an un-awaited async call returns, or a raised exception.
ListValue(items) == [type |-> "list", items |-> items]
CoroutineValue == [type |-> "coroutine", items |-> <<>>]
ExceptionValue == [type |-> "exception", items |-> <<>>]

\* TrendingTopic(topic = query, query = query, platforms = platforms)
TrendingTopic(query, platforms) ==
    [topic |-> query, query |-> query, platforms |-> platforms,
     github_data |-> ListValue(<<>>),
     twitter_data |-> ListValue(<<>>),
     reddit_data |-> ListValue(<<>>),
     overall_score |-> None]

\* What the sources have to offer, best ranked first.
GitHubRepos == <<
    [full_name |-> "a/core", stargazers_count |-> 20000, forks_count |-> 0,
     contributors_count |-> None, language |-> Some("python")],
    [full_name |-> "b/huge", stargazers_count |-> 6000000, forks_count |-> 0,
     contributors_count |-> None, language |-> Some("rust")],
    [full_name |-> "c/lib", stargazers_count |-> 0, forks_count |-> 20000,
     contributors_count |-> Some(1000), language |-> None] >>

TwitterPosts == <<
    [id |-> "t1", like_count |-> 500, retweet_count |-> 200, reply_count |-> 100,
     quote_count |-> 0],
    [id |-> "t2", like_count |-> 30000, retweet_count |-> 0, reply_count |-> 0,
     quote_count |-> 0],
    [id |-> "t3", like_count |-> 0, retweet_count |-> 0, reply_count |-> 0,
     quote_count |-> 0] >>

RedditPosts == <<
    [id |-> "r1", score |-> 300, num_comments |-> 100],
    [id |-> "r2", score |-> -1000, num_comments |-> 0],
    [id |-> "r3", score |-> 100000, num_comments |-> 0] >>

Catalog(source) ==
    CASE source = "github" -> GitHubRepos
      [] source = "twitter" -> TwitterPosts
      [] source = "reddit" -> RedditPosts

(***************************************************************************)
(* Source clients, as far as the aggregator sees them                      *)
(***************************************************************************)
\* The outcomes of one _collect_<source>_data task: the executor call raises,
\* or the service returns.  GitHubService.search_trending_repos without a
\* token returns the un-awaited call of the async
\* _search_repos_unauthenticated, a coroutine object.
TaskOutcomes(source, max_results, token) ==
    {ExceptionValue}
    \cup IF source = "github" /\ ~token THEN {CoroutineValue}
         ELSE {ListValue(SubSeq(Catalog(source), 1, n)) :
                  n \in 0..Min(Min(max_results, MaxItems), Len(Catalog(source)))}

\* TwitterService._mock_twitter_data: min(max_results, 20) fabricated posts
_mock_twitter_data(max_results) ==
    [n \in 1..Min(max_results, 20) |->
        [id |-> "mock_" \o str(n - 1), like_count |-> (n - 1) * 25,
         retweet_count |-> (n - 1) * 10, reply_count |-> (n - 1) * 5,
         quote_count |-> (n - 1) * 3]]

\* What search_trending_* returns when the API call of the source fails:
\* TwitterService answers from "except Exception" with _mock_twitter_data;
\* RedditService skips every subreddit whose search raised and
\* GitHubService answers from "except Exception", both with an empty list.
api_error_result(source, max_results) ==
    IF source = "twitter" THEN ListValue(_mock_twitter_data(max_results))
    ELSE ListValue(<<>>)

\* The outcomes of one fetch, with whether the API call of the source failed.
\* Without a token GitHubService makes no API call of its own.
FetchOutcomes(source, max_results, token) ==
    {[api_failed |-> FALSE, result |-> v] : v \in TaskOutcomes(source, max_results, token)}
    \cup IF source = "github" /\ ~token THEN {}
         ELSE {[api_failed |-> TRUE, result |-> api_error_result(source, max_results)]}

(***************************************************************************)
(* GitHubService                                                           *)
(***************************************************************************)
\* _enrich_repo_data: the calls for topics, contributors and commits are each
\* wrapped in a bare except and leave their field unset; anything else that
\* raises (reading an attribute, validating GitHubRepo) is re-raised.
\* repo.contributors is None when the call raises, else the number it lists.
_enrich_repo_data(repo) ==
    [raises |-> repo.enrich = "raises",
     value |-> [full_name |-> repo.full_name,
                stargazers_count |-> repo.stargazers_count,
                forks_count |-> repo.forks_count,
                language |-> repo.language,
                contributors_count |-> IF repo.contributors = None THEN None
                                       ELSE Some(repo.contributors[1])]]

\* compute_repo_metrics: stars_per_day, stars_per_contributor and health_score
\* are not fields of GitHubRepo, so assigning the first of them raises
\* ValueError inside the try; the except logs it and the repo is returned as
\* it came
compute_repo_metrics(repo) == repo

RECURSIVE enrich_all(_, _, _)
\* for repo in repos: ... of search_trending_repos
enrich_all(repos, repo_list, max_results) ==
    IF repos = <<>> \/ Len(repo_list) >= max_results THEN repo_list
    ELSE LET repo_data == _enrich_repo_data(Head(repos)) IN
         enrich_all(Tail(repos),
                    IF repo_data.raises THEN repo_list
                    ELSE Append(repo_list, compute_repo_metrics(repo_data.value)),
                    max_results)

\* search_trending_repos: without a token the call of the async
\* _search_repos_unauthenticated is returned un-awaited; an error of the
\* search itself ends in "except Exception: return []"
search_trending_repos(call, token) ==
    IF ~token THEN CoroutineValue
    ELSE IF call.api_fails THEN ListValue(<<>>)
    ELSE ListValue(enrich_all(call.found, <<>>, call.max_results))

\* the number of entries get_top_contributors returns at most
TopContributors == 10

RECURSIVE contributor_stats(_, _)
\* the loop of get_top_contributors: dict entries in insertion order
contributor_stats(repos, stats) ==
    IF repos = <<>> THEN stats
    ELSE LET repo == Head(repos) IN
         contributor_stats(Tail(repos),
            IF /\ repo.contributors_count # None
               /\ repo.contributors_count[1] # 0
               /\ \A i \in 1..Len(stats) : stats[i].repo_name # repo.full_name
            THEN Append(stats, [repo_name |-> repo.full_name,
                                score |-> repo.stargazers_count + repo.forks_count * 2,
                                stars |-> repo.stargazers_count,
                                forks |-> repo.forks_count,
                                language |-> repo.language])
            ELSE stats)

RECURSIVE sorted_by_score(_)
\* sorted(entries, key=lambda x: x['score'], reverse=True): stable, equal
\* scores keep their order
sorted_by_score(entries) ==
    IF entries = <<>> THEN <<>>
    ELSE LET best == CHOOSE i \in 1..Len(entries) :
                        /\ \A j \in 1..Len(entries) : entries[j].score <= entries[i].score
                        /\ \A j \in 1..(i - 1) : entries[j].score < entries[i].score
         IN <<entries[best]>>
            \o sorted_by_score(SubSeq(entries, 1, best - 1)
                               \o SubSeq(entries, best + 1, Len(entries)))

get_top_contributors(repos) ==
    LET sorted_contributors == sorted_by_score(contributor_stats(repos, <<>>))
    IN SubSeq(sorted_contributors, 1, Min(TopContributors, Len(sorted_contributors)))

(***************************************************************************)
(* RedditService                                                           *)
(***************************************************************************)
\* the words get_trending_keywords never counts
common_words ==
    {"the", "a", "an", "and", "or", "but", "in", "on", "at", "to", "for", "of", "with",
     "by", "is", "are", "was", "were", "be", "been", "have", "has", "had", "do", "does",
     "did", "will", "would", "could", "should", "may", "might", "can", "this", "that",
     "these", "those", "i", "you", "he", "she", "it", "we", "they", "me", "him", "her",
     "us", "them", "my", "your", "his", "its", "our", "their"}

\* a word counts when it is longer than this
ShortWord == 3

\* the number of keywords get_trending_keywords returns at most
TopKeywords == 15

\* str.isalpha
isalpha(word) == word # "" /\ CharsOf(word) \subseteq CharsOf(LOWER) \cup CharsOf(UPPER)

\* re.findall(r'\b\w+\b', text): the maximal runs of word characters
words_of(text) == re_findall(Re(<<Plus(Word)>>, <<1, 1>>), text)

RECURSIVE count_words(_, _)
\* for word in words: ... of get_trending_keywords; keyword_counts is the dict
\* as the sequence of its entries in insertion order
count_words(words, keyword_counts) ==
    Bind(words, LAMBDA ws : Bind(keyword_counts, LAMBDA kc :
        IF ws = <<>> THEN kc
        ELSE LET word == Head(ws) IN
             count_words(Tail(ws),
                IF Len(word) > ShortWord /\ word \notin common_words /\ isalpha(word)
                THEN IF \E i \in 1..Len(kc) : kc[i].keyword = word
                     THEN [i \in 1..Len(kc) |->
                              IF kc[i].keyword = word
                              THEN [kc[i] EXCEPT !.count = @ + 1] ELSE kc[i]]
                     ELSE Append(kc, [keyword |-> word, count |-> 1])
                ELSE kc)))

RECURSIVE count_posts(_, _)
\* for post in posts: ... of get_trending_keywords
count_posts(posts, keyword_counts) ==
    Bind(posts, LAMBDA ps : Bind(keyword_counts, LAMBDA kc :
        IF ps = <<>> THEN kc
        ELSE LET post == Head(ps)
                 text == lower(post.title \o " " \o post.selftext)
             IN count_posts(Tail(ps), count_words(words_of(text), kc))))

RECURSIVE sorted_by_count(_)
\* sorted(keyword_counts.items(), key=lambda x: x[1], reverse=True): stable
sorted_by_count(entries) ==
    Bind(entries, LAMBDA es :
        IF es = <<>> THEN <<>>
        ELSE LET best == CHOOSE i \in 1..Len(es) :
                            /\ \A j \in 1..Len(es) : es[j].count <= es[i].count
                            /\ \A j \in 1..(i - 1) : es[j].count < es[i].count
             IN <<es[best]>>
                \o sorted_by_count(SubSeq(es, 1, best - 1) \o SubSeq(es, best + 1, Len(es))))

\* percentage is (count / len(posts)) * 100, here as an exact fraction
get_trending_keywords(posts) ==
    Bind(sorted_by_count(count_posts(posts, <<>>)), LAMBDA counts :
        [k \in 1..Min(TopKeywords, Len(counts)) |->
            [keyword |-> counts[k].keyword,
             count |-> counts[k].count,
             percentage |-> RMul(Rat(counts[k].count, Len(posts)), <<100, 1>>)]])

(***************************************************************************)
(* TrendingAnalyzer                                                        *)
(***************************************************************************)
\* bool(value): a non-empty list and any coroutine object are truthy
Truthy(v) == v.type = "coroutine" \/ (v.type = "list" /\ v.items # <<>>)

\* iterating the value and reading the attributes raises (TypeError for a
\* coroutine object, AttributeError for an item of another class)
ReadRaises(v, attrs) ==
    v.type # "list" \/ \E i \in 1..Len(v.items) : ~(attrs \subseteq DOMAIN v.items[i])

RECURSIVE sum(_, _)
\* sum(item.<attr> for item in items)
sum(items, attr) == IF items = <<>> THEN 0 ELSE Head(items)[attr] + sum(Tail(items), attr)

RECURSIVE sum_or_0(_, _)
\* sum(item.<attr> or 0 for item in items)
sum_or_0(items, attr) ==
    IF items = <<>> THEN 0
    ELSE (IF Head(items)[attr] = None THEN 0 ELSE Head(items)[attr][1])
         + sum_or_0(Tail(items), attr)

GithubAttrs == {"stargazers_count", "forks_count", "contributors_count"}
TwitterAttrs == {"like_count", "retweet_count", "reply_count"}
RedditAttrs == {"score", "num_comments"}

Cap100 == <<100, 1>>

\* _calculate_github_score returning score / 1000 without min(..., 100.0)
_calculate_github_score_without_cap(repos) ==
    IF repos = <<>> THEN Zero
    ELSE LET avg_stars == Rat(sum(repos, "stargazers_count"), Len(repos))
             avg_forks == Rat(sum(repos, "forks_count"), Len(repos))
             avg_contributors == Rat(sum_or_0(repos, "contributors_count"), Len(repos))
             score == RAdd(RAdd(RMul(avg_stars, <<1, 2>>), RMul(avg_forks, <<3, 10>>)),
                           RMul(avg_contributors, <<1, 5>>))
         IN RDiv(score, <<1000, 1>>)

_calculate_github_score(repos) ==
    IF repos = <<>> THEN Zero
    ELSE LET avg_stars == Rat(sum(repos, "stargazers_count"), Len(repos))
             avg_forks == Rat(sum(repos, "forks_count"), Len(repos))
             avg_contributors == Rat(sum_or_0(repos, "contributors_count"), Len(repos))
             score == RAdd(RAdd(RMul(avg_stars, <<1, 2>>), RMul(avg_forks, <<3, 10>>)),
                           RMul(avg_contributors, <<1, 5>>))
         IN RMin(RDiv(score, <<1000, 1>>), Cap100)

_calculate_twitter_score(posts) ==
    IF posts = <<>> THEN Zero
    ELSE LET total_engagement == sum(posts, "like_count") + sum(posts, "retweet_count")
                                 + sum(posts, "reply_count")
             avg_engagement == Rat(total_engagement, Len(posts))
         IN RMin(RDiv(avg_engagement, <<100, 1>>), Cap100)

_calculate_reddit_score(posts) ==
    IF posts = <<>> THEN Zero
    ELSE LET avg_score == Rat(sum(posts, "score"), Len(posts))
             avg_comments == Rat(sum(posts, "num_comments"), Len(posts))
             score == RAdd(RMul(avg_score, <<7, 10>>), RMul(avg_comments, <<3, 10>>))
         IN RMin(RDiv(score, <<100, 1>>), Cap100)

GithubWeight == <<2, 5>>
TwitterWeight == <<7, 20>>
RedditWeight == <<1, 4>>

\* [exc |-> the computation raises, value |-> the score it returns otherwise]
_calculate_overall_score(trending_topic) ==
    LET g == trending_topic.github_data
        t == trending_topic.twitter_data
        r == trending_topic.reddit_data
        exc == \/ Truthy(g) /\ ReadRaises(g, GithubAttrs)
               \/ Truthy(t) /\ ReadRaises(t, TwitterAttrs)
               \/ Truthy(r) /\ ReadRaises(r, RedditAttrs)
        score ==
            RAdd(RAdd(IF Truthy(g) THEN RMul(_calculate_github_score(g.items), GithubWeight)
                      ELSE Zero,
                      IF Truthy(t) THEN RMul(_calculate_twitter_score(t.items), TwitterWeight)
                      ELSE Zero),
                 IF Truthy(r) THEN RMul(_calculate_reddit_score(r.items), RedditWeight)
                 ELSE Zero)
        total_weight ==
            RAdd(RAdd(IF Truthy(g) THEN GithubWeight ELSE Zero,
                      IF Truthy(t) THEN TwitterWeight ELSE Zero),
                 IF Truthy(r) THEN RedditWeight ELSE Zero)
    IN [exc |-> exc,
        value |-> IF exc THEN Zero
                  ELSE IF RLt(Zero, total_weight) THEN RDiv(score, total_weight)
                  ELSE Zero]

\* the results in the order the tasks completed, as asyncio.as_completed gives
gather_as_completed(tasks, completed) ==
    [k \in 1..Len(completed) |-> tasks[completed[k]].result]

\* asyncio.gather(*tasks, return_exceptions=True): the results in the order of
\* the tasks, whatever the order they completed in
gather(tasks, completed) ==
    [i \in 1..Len(tasks) |-> tasks[i].result]

\* create_tasks without the "if PlatformType.X in request.platforms" tests
create_tasks_every_source(request) ==
    [i \in 1..Len(PlatformOrder) |->
        [source |-> PlatformOrder[i], query |-> request.query,
         max_results |-> request.max_results_per_platform,
         state |-> "pending", result |-> ExceptionValue, api_failed |-> FALSE]]

\* tasks.append(...) for every platform of the request, github first
create_tasks(request) ==
    LET enabled == SelectSeq(PlatformOrder, LAMBDA p : p \in request.platforms) IN
    [i \in 1..Len(enabled) |->
        [source |-> enabled[i], query |-> request.query,
         max_results |-> request.max_results_per_platform,
         state |-> "pending", result |-> ExceptionValue, api_failed |-> FALSE]]

RECURSIVE process_results_keeping_exceptions(_, _, _, _)
\* process_results without "if isinstance(result, Exception): continue"
process_results_keeping_exceptions(trending_topic, results, platforms, i) ==
    IF i >= Len(results) THEN trending_topic
    ELSE LET result == results[i + 1] IN
         process_results_keeping_exceptions(
            IF "github" \in platforms /\ i = 0
            THEN [trending_topic EXCEPT !.github_data = result]
            ELSE IF "twitter" \in platforms /\ i = 1
                 THEN [trending_topic EXCEPT !.twitter_data = result]
            ELSE IF "reddit" \in platforms /\ i = 2
                 THEN [trending_topic EXCEPT !.reddit_data = result]
            ELSE trending_topic,
            results, platforms, i + 1)

RECURSIVE process_results(_, _, _, _)
\* for i, result in enumerate(results): ... (i counts from 0)
process_results(trending_topic, results, platforms, i) ==
    IF i >= Len(results) THEN trending_topic
    ELSE LET result == results[i + 1] IN
         process_results(
            IF result.type = "exception" THEN trending_topic
            ELSE IF "github" \in platforms /\ i = 0
                 THEN [trending_topic EXCEPT !.github_data = result]
            ELSE IF "twitter" \in platforms /\ i = 1
                 THEN [trending_topic EXCEPT !.twitter_data = result]
            ELSE IF "reddit" \in platforms /\ i = 2
                 THEN [trending_topic EXCEPT !.reddit_data = result]
            ELSE trending_topic,
            results, platforms, i + 1)

\* len(value or []) raises for a coroutine object
generate_analysis_summary(trending_topic) ==
    LET g == trending_topic.github_data
        t == trending_topic.twitter_data
        r == trending_topic.reddit_data
        stats(platform, v) ==
            IF Truthy(v) THEN <<[platform |-> platform, total_items |-> Len(v.items)]>>
            ELSE <<>>
    IN [exc |-> \/ g.type # "list" \/ t.type # "list" \/ r.type # "list"
                \/ Truthy(g) /\ ReadRaises(g, GithubAttrs \cup {"language", "full_name"})
                \/ Truthy(t) /\ ReadRaises(t, TwitterAttrs \cup {"quote_count"})
                \/ Truthy(r) /\ ReadRaises(r, RedditAttrs),
        value |-> [total_repos |-> Len(g.items),
                   total_tweets |-> Len(t.items),
                   total_reddit_posts |-> Len(r.items),
                   platform_stats |-> stats("github", g) \o stats("twitter", t)
                                      \o stats("reddit", r)]]

(***************************************************************************)
(* Inputs of the model                                                     *)
(***************************************************************************)
\* query texts of the requests to /trending/analyze and /trending/quick-analysis
RequestQueries == {"", " ", "rust", "js projects"}

\* building blocks of the natural-language queries given to the parser
Phrases == <<
    "python projects",
    "more than 100 stars", "at least 50 forks", "0 stars or more",
    "created since 2023", "updated after mar 2021",
    "with typescript support" >>

\* the queries the documentation of the API gives as examples, and phrasings
\* and spellings the phrases do not produce
DocQueries == {
    "python projects with at least 50 forks created since 2023",
    "javascript libraries with typescript support and more than 200 stars",
    "repos with more than 100 stars where mcp server is used to connect notion",
    "  Zig Projects ", "100+stars", "minimum 007 forks",
    "js code", "in rust", "25+ stars", "minimum 7 contributors", "using vue-router",
    "without issues", "not archived", "name only" }

\* the synonymous phrasings of a lower bound of n on a noun
Phrasing(k, n, noun) ==
    CASE k = 1 -> "more than " \o str(n) \o " " \o noun \o "s"
      [] k = 2 -> str(n) \o "+ " \o noun \o "s"
      [] k = 3 -> "at least " \o str(n) \o " " \o noun \o "s"
      [] k = 4 -> "minimum " \o str(n) \o " " \o noun \o "s"
      [] k = 5 -> str(n) \o " " \o noun \o "s or more"

SampleNumbers == {0, 7, 50, 100, 1000}
Nouns == {"star", "fork", "contributor"}

SynonymQueries ==
    {Phrasing(k, n, noun) : k \in 1..5, n \in SampleNumbers, noun \in Nouns}

\* the prepositions of a date phrase
Prepositions == {"in", "after", "since"}
SampleYears == {"1999", "2023"}
\* month words with the month number the table gives their first three letters
MonthWords ==
    { <<"jan", "01">>, <<"mar", "03">>, <<"Dec", "12">>, <<"september", "09">>,
      <<"foo", "01">>, <<"ju", "01">> }

CreatedYear(p, y) == "created " \o p \o " " \o y
CreatedMonthYear(p, w, y) == "created " \o p \o " " \o w \o " " \o y

DateQueries ==
    {CreatedYear(p, y) : p \in Prepositions, y \in SampleYears}
    \cup {CreatedMonthYear(p, mw[1], "2023") : p \in Prepositions, mw \in MonthWords}
    \cup {"updated in 2020", "from 2019", "since 2018 created in jun 2022",
          "created since 20234", "updated since 12 2023", "updated since 2023"}

\* queries naming a language, with the language the alias table gives
LanguageExamples ==
    { <<"js projects", "javascript">>, <<"ts repositories", "typescript">>,
      <<"py code", "python">>, <<"zig projects", "zig">>,
      <<"rb language", "ruby">>, <<"in cpp", "c++">>,
      <<"CSharp project", "c#">>, <<"zig projects in rust", "rust">>,
      <<"go code for scala repositories", "scala">>,
      <<"kotlin repositories", "repositories">> }

LanguageQueries == {e[1] : e \in LanguageExamples}

\* queries with phrases of the boolean pattern table
FlagQueries ==
    {"with issues", "without issues", "with wiki", "without wiki", "archived",
     "not forked", "forked", "original", "forked original tools",
     "with issues without issues", "with issue not archived with wiki"}

\* queries naming several topics, with the topics in the order of the text
TopicExamples ==
    { <<"using redis with kafka", <<"redis", "kafka">> >>,
      <<"redis support with kafka", <<"redis", "kafka">> >>,
      <<"react plugin using vue with react", <<"react", "vue">> >>,
      <<"with Docker using docker", <<"docker">> >>,
      <<"using X-Ray with x-ray and grpc integration", <<"x-ray", "grpc">> >> }

TopicQueries == {e[1] : e \in TopicExamples}

\* queries that are one constraint phrase: numeric, date, flag
ConstraintPhrases ==
    {"with more than 100 stars", "created in 2023", "with issues", "with wiki"}

PhraseSeqs == UNION {[1..n -> 1..Len(Phrases)] : n \in 0..MaxPhrases}

NLQueries ==
    {join(" ", [i \in DOMAIN ps |-> Phrases[ps[i]]]) : ps \in PhraseSeqs}
    \cup DocQueries \cup SynonymQueries \cup DateQueries \cup LanguageQueries
    \cup FlagQueries \cup TopicQueries \cup ConstraintPhrases

(***************************************************************************)
(* State                                                                   *)
(***************************************************************************)
VARIABLES
    githubToken,     \* settings.GITHUB_TOKEN is set
    pc,              \* "idle", "gather" (the handler awaits asyncio.gather), "responded"
    route,           \* the endpoint of the request being handled
    inbound,         \* the parameters the request came with
    request,         \* the TrendingAnalysisRequest of the handler
    tasks,           \* the fetch tasks of analyze_trending_topic, in list order
    completed,       \* the positions of the settled tasks, in the order they settled
    trending_topic,  \* the TrendingTopic of analyze_trending_topic
    analysis,        \* analyze_trending_topic: "none", "running", "returned", "raised"
    summary,         \* the AnalysisSummary of the handler, None before it is built
    response,        \* the response of the handler, None before it is sent
    nl_query,        \* the text given to NLPQueryParser.parse_query
    parse_outcome,   \* parse_query: "none", "returned", "raised"
    parsed,          \* the ParsedQuery it returned
    github_query,    \* build_github_query(parsed), None before it is built
    explanation,     \* get_query_explanation(parsed), None before it is built
    search_call,     \* the arguments and the environment of search_trending_repos
    repo_list,       \* what search_trending_repos returned, None before the call
    top_contributors, \* get_top_contributors(repo_list), None before the call
    posts,           \* the posts given to get_trending_keywords
    trending_keywords \* what get_trending_keywords returned, None before the call

aggVars == <<githubToken, pc, route, inbound, request, tasks, completed, trending_topic,
             analysis, summary, response>>
nlpVars == <<nl_query, parse_outcome, parsed, github_query, explanation>>
svcVars == <<search_call, repo_list, top_contributors, posts, trending_keywords>>
vars == <<githubToken, pc, route, inbound, request, tasks, completed, trending_topic,
          analysis, summary, response, nl_query, parse_outcome, parsed, github_query,
          explanation, search_call, repo_list, top_contributors, posts,
          trending_keywords>>

QuickMaxResults == 15

Init ==
    /\ githubToken \in BOOLEAN
    /\ pc = "idle"
    /\ route = "none"
    /\ inbound = [query |-> "", platforms |-> {}]
    /\ request = [query |-> "", platforms |-> {}, max_results_per_platform |-> 1]
    /\ tasks = <<>>
    /\ completed = <<>>
    /\ trending_topic = TrendingTopic("", {})
    /\ analysis = "none"
    /\ summary = None
    /\ response = None
    /\ nl_query = ""
    /\ parse_outcome = "none"
    /\ parsed = ParsedQuery("")
    /\ github_query = None
    /\ explanation = None
    /\ search_call = [found |-> <<>>, max_results |-> 1, api_fails |-> FALSE]
    /\ repo_list = None
    /\ top_contributors = None
    /\ posts = <<>>
    /\ trending_keywords = None

(***************************************************************************)
(* api/routes.py and TrendingAnalyzer.analyze_trending_topic               *)
(***************************************************************************)
\* the handler answers without calling the analyzer
Reject(resp) ==
    /\ pc' = "responded"
    /\ tasks' = <<>>
    /\ completed' = <<>>
    /\ trending_topic' = TrendingTopic("", {})
    /\ analysis' = "none"
    /\ summary' = None
    /\ response' = Some(resp)

\* analyze_trending_topic up to "await asyncio.gather(*tasks, return_exceptions=True)"
Dispatch(req) ==
    /\ trending_topic' = TrendingTopic(req.query, req.platforms)
    /\ tasks' = create_tasks(req)
    /\ completed' = <<>>
    /\ analysis' = "running"
    /\ summary' = None
    /\ response' = None
    /\ pc' = "gather"

\* POST /trending/analyze
AnalyzeRequest(query, platforms, max_results) ==
    /\ pc \in {"idle", "responded"}
    /\ route' = "analyze"
    /\ inbound' = [query |-> query, platforms |-> platforms]
    /\ request' = [query |-> query, platforms |-> platforms,
                   max_results_per_platform |-> max_results]
    /\ IF strip(query) = ""
       THEN Reject([success |-> FALSE, message |-> "Error analyzing trending topic",
                    error |-> Some("400: Query cannot be empty")])
       ELSE IF platforms = {}
       THEN Reject([success |-> FALSE, message |-> "Error analyzing trending topic",
                    error |-> Some("400: At least one platform must be selected")])
       ELSE Dispatch(request')
    /\ UNCHANGED <<githubToken, nlpVars, svcVars>>

\* POST /trending/quick-analysis
QuickAnalysisRequest(query, platforms) ==
    /\ pc \in {"idle", "responded"}
    /\ route' = "quick-analysis"
    /\ inbound' = [query |-> query, platforms |-> platforms]
    /\ request' = [query |-> query,
                   platforms |-> IF platforms = {} THEN {"github"} ELSE platforms,
                   max_results_per_platform |-> QuickMaxResults]
    /\ Dispatch(request')
    /\ UNCHANGED <<githubToken, nlpVars, svcVars>>

\* the natural-language queries sent to /trending/nlp-search
NlpSearchQueries ==
    {"python projects with at least 50 forks created since 2023",
     "javascript libraries with typescript support and more than 200 stars",
     "rust"}

\* POST /trending/nlp-search: TrendingAnalyzer has no attribute
\* analyze_trending_with_nlp, so evaluating it raises AttributeError inside the
\* handler's try, and "except Exception as e" answers with str(e)
NlpSearchRequest(natural_query) ==
    /\ pc \in {"idle", "responded"}
    /\ route' = "nlp-search"
    /\ inbound' = [query |-> natural_query, platforms |-> {}]
    /\ request' = [query |-> "", platforms |-> {}, max_results_per_platform |-> 1]
    /\ Reject([success |-> FALSE, message |-> "",
               error |-> Some("'TrendingAnalyzer' object has no attribute "
                              \o "'analyze_trending_with_nlp'")])
    /\ UNCHANGED <<githubToken, nlpVars, svcVars>>

\* the fetch of task i completes: the executor call raises or the service returns
Settle(i) ==
    /\ pc = "gather"
    /\ i \in 1..Len(tasks)
    /\ tasks[i].state = "pending"
    /\ \E outcome \in FetchOutcomes(tasks[i].source, tasks[i].max_results, githubToken) :
          tasks' = [tasks EXCEPT ![i].state = "settled", ![i].result = outcome.result,
                                 ![i].api_failed = outcome.api_failed]
    /\ completed' = Append(completed, i)
    /\ UNCHANGED <<githubToken, pc, route, inbound, request, trending_topic, analysis,
                   summary, response, nlpVars, svcVars>>

\* the remote end of task i never answers: the calls of the services carry no
\* timeout, and neither run_in_executor nor gather has one
Stall(i) ==
    /\ pc = "gather"
    /\ i \in 1..Len(tasks)
    /\ tasks[i].state = "pending"
    /\ tasks' = [tasks EXCEPT ![i].state = "hung"]
    /\ UNCHANGED <<completed, githubToken, pc, route, inbound, request, trending_topic, analysis,
                   summary, response, nlpVars, svcVars>>

\* the response of the handler once analyze_trending_topic returned
Success(topic) ==
    IF route = "analyze"
    THEN [success |-> TRUE,
          message |-> "Successfully analyzed trending topic: " \o request.query,
          error |-> None]
    ELSE [success |-> TRUE, message |-> "", error |-> None]

\* the response of the handler's "except Exception as e"
Failure(e) ==
    IF route = "analyze"
    THEN [success |-> FALSE, message |-> "Error analyzing trending topic", error |-> Some(e)]
    ELSE [success |-> FALSE, message |-> "", error |-> Some(e)]

\* gather returns: the rest of analyze_trending_topic and of the handler
Join ==
    /\ pc = "gather"
    /\ \A i \in 1..Len(tasks) : tasks[i].state = "settled"
    /\ LET results == gather(tasks, completed)
           filled == process_results(trending_topic, results, request.platforms, 0)
           overall == _calculate_overall_score(filled)
           scored == [filled EXCEPT !.overall_score = Some(overall.value)]
           s == generate_analysis_summary(scored)
       IN IF overall.exc
          THEN /\ trending_topic' = filled
               /\ analysis' = "raised"
               /\ summary' = None
               /\ response' = Some(Failure("TypeError or AttributeError"))
          ELSE /\ trending_topic' = scored
               /\ analysis' = "returned"
               /\ IF s.exc
                  THEN /\ summary' = None
                       /\ response' = Some(Failure("TypeError or AttributeError"))
                  ELSE /\ summary' = Some(s.value)
                       /\ response' = Some(Success(scored))
    /\ pc' = "responded"
    /\ UNCHANGED <<githubToken, route, inbound, request, tasks, completed, nlpVars, svcVars>>

Next ==
    \/ \E query \in RequestQueries, platforms \in SUBSET PlatformType,
          max_results \in 1..MaxCap : AnalyzeRequest(query, platforms, max_results)
    \/ \E query \in RequestQueries, platforms \in SUBSET PlatformType :
          QuickAnalysisRequest(query, platforms)
    \/ \E natural_query \in NlpSearchQueries : NlpSearchRequest(natural_query)
    \/ \E i \in 1..Len(PlatformOrder) : Settle(i)
    \/ \E i \in 1..Len(PlatformOrder) : Stall(i)
    \/ Join

Spec == Init /\ [][Next]_vars

(***************************************************************************)
(* NLPQueryParser as a state machine                                       *)
(***************************************************************************)
ParseQuery(query) ==
    /\ parse_outcome = "none"
    /\ nl_query' = query
    /\ IF parse_query_raises(query)
       THEN parse_outcome' = "raised" /\ parsed' = ParsedQuery("")
       ELSE parse_outcome' = "returned" /\ parsed' = parse_query(query)
    /\ github_query' = None
    /\ explanation' = None
    /\ UNCHANGED aggVars
    /\ UNCHANGED svcVars

BuildGithubQuery ==
    /\ parse_outcome = "returned"
    /\ github_query = None
    /\ github_query' = Some(build_github_query(parsed))
    /\ UNCHANGED <<nl_query, parse_outcome, parsed, explanation>>
    /\ UNCHANGED aggVars
    /\ UNCHANGED svcVars

GetQueryExplanation ==
    /\ parse_outcome = "returned"
    /\ explanation = None
    /\ explanation' = Some(get_query_explanation(parsed))
    /\ UNCHANGED <<nl_query, parse_outcome, parsed, github_query>>
    /\ UNCHANGED aggVars
    /\ UNCHANGED svcVars

InitNLP == Init /\ ~githubToken

NextNLP ==
    \/ \E query \in NLQueries : ParseQuery(query)
    \/ BuildGithubQuery
    \/ GetQueryExplanation

SpecNLP == InitNLP /\ [][NextNLP]_vars

(***************************************************************************)
(* GitHubService and RedditService as a state machine                      *)
(***************************************************************************)
\* what the search of the GitHub API can give: repositories of the catalog in
\* any order, a repository possibly more than once, each with whether its
\* enrichment raises and what the call for its contributors gives
FoundRepos ==
    LET raw == {[full_name |-> r.full_name, stargazers_count |-> r.stargazers_count,
                 forks_count |-> r.forks_count, language |-> r.language,
                 contributors |-> c, enrich |-> e] :
                    r \in {GitHubRepos[i] : i \in 1..Len(GitHubRepos)},
                    c \in {None, Some(0), Some(1000)},
                    e \in {"ok", "raises"}}
        seqs == UNION {[1..n -> raw] : n \in 0..MaxItems}
    IN seqs

SearchTrendingRepos(found, max_results, api_fails) ==
    /\ repo_list = None
    /\ search_call' = [found |-> found, max_results |-> max_results, api_fails |-> api_fails]
    /\ repo_list' = Some(search_trending_repos(search_call', githubToken))
    /\ top_contributors' = None
    /\ UNCHANGED <<posts, trending_keywords>>
    /\ UNCHANGED aggVars
    /\ UNCHANGED nlpVars

\* get_top_contributors on the repositories the search returned
GetTopContributors ==
    /\ repo_list # None
    /\ repo_list[1].type = "list"
    /\ top_contributors = None
    /\ top_contributors' = Some(get_top_contributors(repo_list[1].items))
    /\ UNCHANGED <<search_call, repo_list, posts, trending_keywords>>
    /\ UNCHANGED aggVars
    /\ UNCHANGED nlpVars

\* the posts a forum search can give, by title and body
KeywordPosts ==
    { [title |-> "Rust rust", selftext |-> "is the best"],
      [title |-> "Async Rust 2024", selftext |-> "with tokio_rt and that"],
      [title |-> "alpha bravo charlie delta echo foxtrot golf hotel india juliet "
                 \o "kilo lima mike november oscar papa quebec",
       selftext |-> "mike"],
      [title |-> "", selftext |-> ""] }

PostLists == UNION {[1..n -> KeywordPosts] : n \in 0..MaxItems}

\* RedditService.get_trending_keywords on a list of posts
GetTrendingKeywords(given) ==
    /\ trending_keywords = None
    /\ posts' = given
    /\ trending_keywords' = Some(get_trending_keywords(given))
    /\ UNCHANGED <<search_call, repo_list, top_contributors>>
    /\ UNCHANGED aggVars
    /\ UNCHANGED nlpVars

\* the two services share no state: a behaviour follows the calls of one
NextSvc ==
    \/ /\ repo_list = None
       /\ trending_keywords = None
       /\ \E found \in FoundRepos, max_results \in 1..MaxCap, api_fails \in BOOLEAN :
             SearchTrendingRepos(found, max_results, api_fails)
    \/ GetTopContributors
    \/ /\ repo_list = None
       /\ trending_keywords = None
       /\ \E given \in PostLists : GetTrendingKeywords(given)

SpecSvc == Init /\ [][NextSvc]_vars

(***************************************************************************)
(* Properties of the aggregator                                            *)
(***************************************************************************)
\* analyze_trending_topic was called and gather has returned
Joined == pc = "responded" /\ analysis # "none"

\* what the fetch of an enabled source produced
Fetched(source) ==
    tasks[CHOOSE i \in 1..Len(tasks) : tasks[i].source = source].result

Raised(source) == Fetched(source).type = "exception"

Survivors == {source \in request.platforms : ~Raised(source)}

Slot(topic, source) ==
    CASE source = "github" -> topic.github_data
      [] source = "twitter" -> topic.twitter_data
      [] source = "reddit" -> topic.reddit_data

Weight(source) ==
    CASE source = "github" -> GithubWeight
      [] source = "twitter" -> TwitterWeight
      [] source = "reddit" -> RedditWeight

Score(source, items) ==
    CASE source = "github" -> _calculate_github_score(items)
      [] source = "twitter" -> _calculate_twitter_score(items)
      [] source = "reddit" -> _calculate_reddit_score(items)

\* sum(weight * score) / sum(weight) over the sources of S, 0.0 for no source
WeightedAverage(S) ==
    LET term(source) ==
            IF source \in S
            THEN RMul(Score(source, Fetched(source).items), Weight(source)) ELSE Zero
        weight(source) == IF source \in S THEN Weight(source) ELSE Zero
    IN IF S = {} THEN Zero
       ELSE RDiv(RAdd(RAdd(term("github"), term("twitter")), term("reddit")),
                 RAdd(RAdd(weight("github"), weight("twitter")), weight("reddit")))

\* C1: with github, twitter and reddit enabled and exactly one fetch raising,
\* analyze_trending_topic returns, the slots of the two other sources hold
\* what their fetches returned, and overall_score is the weighted average over
\* those two sources.  (Stated for a configured GitHub token, all fetches then
\* returning lists.)
C1_Isolation ==
    (/\ Joined
     /\ githubToken
     /\ request.platforms = PlatformType
     /\ Cardinality(PlatformType \ Survivors) = 1)
    => /\ analysis = "returned"
       /\ \A source \in Survivors : Slot(trending_topic, source) = Fetched(source)
       /\ trending_topic.overall_score = Some(WeightedAverage(Survivors))

\* C2: whatever the fetches produced, overall_score is the weighted average
\* over exactly the sources whose fetch did not raise, an empty list counting
\* with score 0 and its full weight, and 0.0 when every fetch raised.  (Stated
\* for a configured GitHub token and all three sources enabled.)
C2_WeightedAverage ==
    (Joined /\ githubToken /\ request.platforms = PlatformType)
    => /\ analysis = "returned"
       /\ trending_topic.overall_score = Some(WeightedAverage(Survivors))

\* C3: for every non-empty set of enabled sources, what a fetch returned is
\* stored in the slot of its own source, and no slot holds anything else.
\* (Stated for a configured GitHub token.)
C3_SlotOfSource ==
    (Joined /\ githubToken)
    => \A source \in PlatformType :
          Slot(trending_topic, source) =
              IF source \in Survivors THEN Fetched(source) ELSE ListValue(<<>>)

\* C4: when the fetch of every enabled source raises, analyze_trending_topic
\* returns with overall_score 0.0 and every data slot empty, and
\* generate_analysis_summary of that result has an empty platform_stats.
C4_TotalFailure ==
    (Joined /\ Survivors = {})
    => /\ analysis = "returned"
       /\ trending_topic.overall_score = Some(Zero)
       /\ \A source \in PlatformType : Slot(trending_topic, source) = ListValue(<<>>)
       /\ ~generate_analysis_summary(trending_topic).exc
       /\ generate_analysis_summary(trending_topic).value.platform_stats = <<>>

\* three sources were enabled, every fetch raised, and the analysis returned
C4_Witness ==
    /\ Joined
    /\ request.platforms = PlatformType
    /\ Survivors = {}
    /\ analysis = "returned"
    /\ response # None

\* C5: a /trending/analyze request is answered with success = false exactly
\* when every enabled fetch failed, and with success = true when at least one
\* succeeded.  (Stated for a configured GitHub token and all three sources
\* enabled.)
C5_FailureSurfaced ==
    (/\ Joined
     /\ route = "analyze"
     /\ githubToken
     /\ request.platforms = PlatformType)
    => /\ response # None
       /\ response[1].success = (Survivors # {})
       /\ ~response[1].success => response[1].message # ""

\* C6: on /trending/analyze and /trending/quick-analysis a request with an
\* empty or whitespace-only query, or with no source enabled, is answered
\* with an error and no fetch is dispatched for it.
C6_ValidationPrecedesFetch ==
    (/\ route \in {"analyze", "quick-analysis"}
     /\ strip(inbound.query) = "" \/ inbound.platforms = {})
    => /\ tasks = <<>>
       /\ response # None
       /\ ~response[1].success

\* C7: the query every fetch task is given is the interpreter's rendering of
\* the request text, build_github_query(parse_query(text)).
C7_RenderedQueryDispatched ==
    \A i \in 1..Len(tasks) :
        tasks[i].query = build_github_query(parse_query(request.query))

\* C8: when a fetch never completes and every other fetch is done, gather
\* gives up on it after a bounded time: analyze_trending_topic can go on.
C8_HungFetchTimesOut ==
    (/\ pc = "gather"
     /\ \A i \in 1..Len(tasks) : tasks[i].state # "pending"
     /\ \E i \in 1..Len(tasks) : tasks[i].state = "hung"
     /\ \E i \in 1..Len(tasks) : tasks[i].state = "settled")
    => ENABLED Join

(***************************************************************************)
(* Properties of the parser                                                *)
(***************************************************************************)
\* no pattern of the table matches the text
Unmatched(patterns, text) ==
    \A k \in 1..Len(patterns) : re_search(patterns[k], text) = <<>>

\* no boolean pattern that sets the field matches the text
FlagUnmatched(field, text) ==
    \A k \in 1..Len(boolean_patterns) :
        boolean_patterns[k].field = field => re_search(boolean_patterns[k].re, text) = <<>>

NonNegative(o) == o = None \/ o[1] >= 0

\* C9: for every query of the model (numbers of at most three digits),
\* parse_query returns; search_in is not empty; min_stars, min_forks and
\* min_contributors are unset or >= 0; and a field none of whose patterns
\* matches the query is left unset.
C9_ParseTotal ==
    parse_outcome # "none"
    => /\ parse_outcome = "returned"
       /\ parsed.search_in # <<>>
       /\ NonNegative(parsed.min_stars)
       /\ NonNegative(parsed.min_forks)
       /\ NonNegative(parsed.min_contributors)
       /\ parsed.max_stars = None /\ parsed.max_forks = None
       /\ parsed.max_contributors = None /\ parsed.created_before = None
       /\ Bind(strip(lower(nl_query)), LAMBDA text :
            /\ Unmatched(star_patterns, text) => parsed.min_stars = None
            /\ Unmatched(fork_patterns, text) => parsed.min_forks = None
            /\ Unmatched(contributor_patterns, text) => parsed.min_contributors = None
            /\ Unmatched(language_patterns, text) => parsed.language = None
            /\ Unmatched(date_patterns, text)
                   => parsed.created_after = None /\ parsed.updated_after = None
            /\ Unmatched(topic_patterns, text) => parsed.topics = <<>>
            /\ \A field \in {"has_issues", "has_wiki", "is_archived", "is_fork"} :
                   FlagUnmatched(field, text) => parsed[field] = None)

\* a query with a fork bound of 50 and a star bound of 0 and no other
\* pattern was parsed
C9_Witness ==
    /\ parse_outcome = "returned"
    /\ nl_query = "at least 50 forks 0 stars or more"
    /\ parsed.min_forks = Some(50)
    /\ parsed.min_stars = Some(0)
    /\ parsed.min_contributors = None
    /\ parsed.language = None
    /\ parsed.search_in = <<"name", "description", "readme", "topics">>

\* C10: "python projects with at least 50 forks created since 2023" parses to
\* language python, min_forks 50, created_after 2023-01-01, an empty base
\* query and nothing else, and renders as
\* "language:python forks:>=50 created:>=2023-01-01".
C10_EndToEnd ==
    (/\ parse_outcome # "none"
     /\ nl_query = "python projects with at least 50 forks created since 2023")
    => /\ parse_outcome = "returned"
       /\ parsed = [ParsedQuery("") EXCEPT !.language = Some("python"),
                                           !.min_forks = Some(50),
                                           !.created_after = Some("2023-01-01")]
       /\ github_query # None
              => github_query = Some("language:python forks:>=50 created:>=2023-01-01")

\* the second example of the API's documentation has been parsed
ParsedLibrariesExample ==
    /\ parse_outcome = "returned"
    /\ nl_query = "javascript libraries with typescript support and more than 200 stars"

MinField(noun) == "min_" \o noun \o "s"

\* C12: each of "more than N stars", "N+ stars", "at least N stars",
\* "minimum N stars" and "N stars or more" parses to min_stars = N, likewise
\* for forks and contributors, and no max_ field is populated.
C12_Synonyms ==
    parse_outcome # "none"
    => \A k \in 1..5, n \in SampleNumbers, noun \in Nouns :
          nl_query = Phrasing(k, n, noun)
          => /\ parse_outcome = "returned"
             /\ parsed[MinField(noun)] = Some(n)
             /\ \A other \in Nouns \ {noun} : parsed[MinField(other)] = None
             /\ parsed.max_stars = None
             /\ parsed.max_forks = None
             /\ parsed.max_contributors = None

C12_Witness ==
    /\ parse_outcome = "returned"
    /\ nl_query = "1000+ contributors"
    /\ parsed.min_contributors = Some(1000)

\* a date of the form YYYY-MM-DD
DayPrecision(date) ==
    /\ Len(date) = 10
    /\ \A i \in {1, 2, 3, 4, 6, 7, 9, 10} : Ch(date, i) \in Digit
    /\ Ch(date, 5) = "-"
    /\ Ch(date, 8) = "-"

\* C13: "created in/after/since YYYY" parses to created_after = YYYY-01-01,
\* "created in/after/since <month> YYYY" to YYYY-MM-01 with MM from the table
\* of three-letter month names and 01 for an unrecognised month word, and
\* every populated created_after and updated_after has the form YYYY-MM-DD.
C13_Dates ==
    parse_outcome # "none"
    => /\ \A p \in Prepositions, y \in SampleYears :
             nl_query = CreatedYear(p, y)
             => parse_outcome = "returned" /\ parsed.created_after = Some(y \o "-01-01")
       /\ \A p \in Prepositions, mw \in MonthWords :
             nl_query = CreatedMonthYear(p, mw[1], "2023")
             => /\ parse_outcome = "returned"
                /\ parsed.created_after = Some("2023-" \o mw[2] \o "-01")
       /\ parse_outcome = "returned"
          => /\ parsed.created_after # None => DayPrecision(parsed.created_after[1])
             /\ parsed.updated_after # None => DayPrecision(parsed.updated_after[1])

C13_Witness ==
    /\ parse_outcome = "returned"
    /\ nl_query = "created after foo 2023"
    /\ parsed.created_after = Some("2023-01-01")

\* the text the extractors of parse_query work on
Normalised == strip(lower(nl_query))

\* the language pattern k matches and no earlier one does
FirstLanguagePattern(k) ==
    /\ re_search(language_patterns[k], Normalised) # <<>>
    /\ \A j \in 1..(k - 1) : re_search(language_patterns[j], Normalised) = <<>>

\* C14: the language is the captured token of the first language pattern, in
\* table order, that matches, mapped through the alias table: "js projects"
\* gives javascript, ts and py give typescript and python, and a token outside
\* the table ("zig projects") passes through unchanged.
C14_LanguageLookup ==
    parse_outcome = "returned"
    => /\ \A e \in LanguageExamples : nl_query = e[1] => parsed.language = Some(e[2])
       /\ parsed.language = None
          <=> \A k \in 1..Len(language_patterns) :
                 re_search(language_patterns[k], Normalised) = <<>>
       /\ \A k \in 1..Len(language_patterns) :
             FirstLanguagePattern(k)
             => parsed.language =
                   Some(lang_map(lower(group1(language_patterns[k], Normalised,
                            re_search(language_patterns[k], Normalised)))))

C14_Witness ==
    /\ parse_outcome = "returned"
    /\ nl_query = "zig projects in rust"
    /\ parsed.language = Some("rust")
    /\ ~FirstLanguagePattern(2)

\* the qualifier tokens of the populated fields of a filter, in the order
\* language, stars, forks, contributors, created, updated, flags, topics
QualifierTokens(f) ==
    (IF f.language = None THEN <<>> ELSE <<"language:" \o f.language[1]>>)
    \o (IF f.min_stars = None THEN <<>> ELSE <<"stars:>=" \o str(f.min_stars[1])>>)
    \o (IF f.max_stars = None THEN <<>> ELSE <<"stars:<=" \o str(f.max_stars[1])>>)
    \o (IF f.min_forks = None THEN <<>> ELSE <<"forks:>=" \o str(f.min_forks[1])>>)
    \o (IF f.max_forks = None THEN <<>> ELSE <<"forks:<=" \o str(f.max_forks[1])>>)
    \o (IF f.min_contributors = None THEN <<>>
        ELSE <<"contributors:>=" \o str(f.min_contributors[1])>>)
    \o (IF f.max_contributors = None THEN <<>>
        ELSE <<"contributors:<=" \o str(f.max_contributors[1])>>)
    \o (IF f.created_after = None THEN <<>> ELSE <<"created:>=" \o f.created_after[1]>>)
    \o (IF f.updated_after = None THEN <<>> ELSE <<"pushed:>=" \o f.updated_after[1]>>)
    \o (IF f.has_issues = None THEN <<>>
        ELSE IF f.has_issues[1] THEN <<"has:issues">> ELSE <<"no:issues">>)
    \o (IF f.has_wiki = None THEN <<>>
        ELSE IF f.has_wiki[1] THEN <<"has:wiki">> ELSE <<"no:wiki">>)
    \o (IF f.is_archived = None THEN <<>>
        ELSE IF f.is_archived[1] THEN <<"archived:true">> ELSE <<"archived:false">>)
    \o (IF f.is_fork = None THEN <<>>
        ELSE IF f.is_fork[1] THEN <<"fork:true">> ELSE <<"fork:false">>)
    \o [i \in 1..Len(f.topics) |-> "topic:" \o f.topics[i]]

\* a numeric bound of the filter is populated with the value 0
ZeroBound(f) == Some(0) \in {f.min_stars, f.min_forks, f.min_contributors}

\* C15: build_github_query renders the base text, then exactly one qualifier
\* token for every populated field, a numeric bound populated with 0
\* included, in the fixed order, joined by spaces; rendering the same filter
\* again gives the same string.
C15_QualifierPerPopulatedField ==
    github_query # None
    => /\ github_query[1] =
             join(" ", (IF parsed.base_query = "" THEN <<>> ELSE <<parsed.base_query>>)
                       \o QualifierTokens(parsed))
       /\ github_query[1] = build_github_query(parsed)

\* the fields of the filter that parsing populated, among those explained
PopulatedFields(f) ==
    {k \in {"min_stars", "min_forks", "min_contributors", "language", "created_after",
            "updated_after", "has_issues", "has_wiki", "is_archived", "is_fork"} :
        f[k] # None}
    \cup {k \in {"topics"} : f[k] # <<>>}

\* C16: the explanation has a parsed_filters key for a field exactly when
\* parsing populated that field, a numeric field populated with 0 included;
\* its github_query is build_github_query of the filter and its search_scope
\* is the scope of the filter.
C16_ExplanationProjectsFilter ==
    explanation # None
    => /\ DOMAIN explanation[1].parsed_filters = PopulatedFields(parsed)
       /\ explanation[1].github_query = build_github_query(parsed)
       /\ explanation[1].search_scope = parsed.search_in

\* C17: POST /trending/nlp-search with a valid natural-language query and
\* working sources answers with success, the parsed_filters of the query's
\* explanation and the rendered GitHub query of the query.
C17_NlpSearchSucceeds ==
    (route = "nlp-search" /\ pc = "responded" /\ githubToken)
    => /\ response # None
       /\ response[1].success
       /\ "parsed_filters" \in DOMAIN response[1]
       /\ "github_query" \in DOMAIN response[1]
       /\ response[1].parsed_filters
             = get_query_explanation(parse_query(inbound.query)).parsed_filters
       /\ response[1].github_query = build_github_query(parse_query(inbound.query))

\* the sources whose API call failed
ApiFailed == {tasks[i].source : i \in {j \in 1..Len(tasks) : tasks[j].api_failed}}

\* the topic with the slots of the sources in S emptied
Without(topic, S) ==
    [topic EXCEPT !.github_data = IF "github" \in S THEN ListValue(<<>>) ELSE @,
                  !.twitter_data = IF "twitter" \in S THEN ListValue(<<>>) ELSE @,
                  !.reddit_data = IF "reddit" \in S THEN ListValue(<<>>) ELSE @]

\* C18: when the API call of a source fails, that source contributes no items
\* to the result and nothing to overall_score.  (Stated for a configured
\* GitHub token and all three sources enabled.)
C18_FetchErrorOmitted ==
    (Joined /\ githubToken /\ request.platforms = PlatformType /\ analysis = "returned")
    => /\ \A source \in ApiFailed : Slot(trending_topic, source).items = <<>>
       /\ trending_topic.overall_score
             = Some(_calculate_overall_score(Without(trending_topic, ApiFailed)).value)

\* the analysis of the request computed from the results in task order
AnalysisOf(results) ==
    LET filled == process_results(TrendingTopic(request.query, request.platforms),
                                  results, request.platforms, 0)
        overall == _calculate_overall_score(filled)
    IN IF overall.exc THEN filled ELSE [filled EXCEPT !.overall_score = Some(overall.value)]

\* C19: the overall score is computed only after every dispatched fetch has
\* settled, and the result is a function of what the fetches returned, taken
\* in task order, whatever order they completed in.
C19_JoinBarrier ==
    /\ (analysis \in {"returned", "raised"} \/ trending_topic.overall_score # None)
       => /\ pc = "responded"
          /\ \A i \in 1..Len(tasks) : tasks[i].state = "settled"
          /\ Len(completed) = Len(tasks)
    /\ Joined => trending_topic = AnalysisOf([i \in 1..Len(tasks) |-> tasks[i].result])

\* the three fetches completed last to first, with two different results
C19_Witness ==
    /\ Joined
    /\ analysis = "returned"
    /\ completed = <<3, 2, 1>>
    /\ tasks[1].result # tasks[3].result
    /\ trending_topic.overall_score # None

\* the analysis returned with a score
Scored == Joined /\ analysis = "returned" /\ trending_topic.overall_score # None

\* no post of the result's reddit slot has a negative score
RedditScoresNonNegative ==
    \A i \in 1..Len(trending_topic.reddit_data.items) :
        trending_topic.reddit_data.items[i].score >= 0

\* C20: every per-source score is at most 100 and is 0.0 for an empty item
\* list, so overall_score <= 100 for every combination of source results;
\* overall_score >= 0 when no counter is negative, and nothing floors it
\* otherwise.
C20_ScoreCapped ==
    Scored
    => /\ \A source \in PlatformType :
             /\ RLe(Score(source, Slot(trending_topic, source).items), Cap100)
             /\ Slot(trending_topic, source).items = <<>>
                => Score(source, Slot(trending_topic, source).items) = Zero
       /\ RLe(trending_topic.overall_score[1], Cap100)
       /\ RedditScoresNonNegative => RLe(Zero, trending_topic.overall_score[1])

\* a negative reddit post score made overall_score negative
C20_Witness ==
    /\ Scored
    /\ ~RedditScoresNonNegative
    /\ RLt(trending_topic.overall_score[1], Zero)

\* search_trending_repos returned a list
Searched == repo_list # None /\ repo_list[1].type = "list" /\ ~search_call.api_fails

\* the enrichment of a repository the search found before the cap raised
EnrichmentRaised ==
    \E i \in 1..Len(search_call.found) :
        i <= search_call.max_results /\ search_call.found[i].enrich = "raises"

\* C21: when enriching one repository raises, the repository is still in the
\* returned list and the following ones are processed: the list holds the
\* first max_results repositories the search found, in their order.
C21_BatchKept ==
    Searched
    => /\ Len(repo_list[1].items) = Min(Len(search_call.found), search_call.max_results)
       /\ \A i \in 1..Len(repo_list[1].items) :
             repo_list[1].items[i].full_name = search_call.found[i].full_name

\* queries that consist of one recognised constraint phrase
SinglePhraseQueries == {"at least 100 stars", "100 stars or more", "not archived"}

\* C22: the base text is the lower-cased input with every span an extraction
\* pattern matched removed; a query that is one recognised constraint phrase
\* ("at least 100 stars", "100 stars or more", "not archived") leaves an empty
\* base text.
C22_BaseTextEmptied ==
    (parse_outcome = "returned" /\ nl_query \in SinglePhraseQueries)
    => parsed.base_query = ""

\* the entries of the boolean pattern table for a field that match the query
FlagMatches(field) ==
    {k \in 1..Len(boolean_patterns) :
        /\ boolean_patterns[k].field = field
        /\ re_search(boolean_patterns[k].re, Normalised) # <<>>}

\* the last entry of a non-empty set of entries, in table order
LastOf(S) == CHOOSE k \in S : \A j \in S : j <= k

\* C23: every flag is unset, true or false; it holds the value of the last
\* entry of the boolean pattern table, in table order, that matches the query
\* for its field, and is unset when none matches.  So "not archived" gives
\* is_archived = false, "not forked" or "original" is_fork = false, "without
\* issues" has_issues = false, and "with issues" has_issues = true (when no
\* later has_issues entry matches too).
C23_FlagsLastWins ==
    parse_outcome = "returned"
    => /\ \A field \in {"has_issues", "has_wiki", "is_archived", "is_fork"} :
             /\ parsed[field] \in {None, Some(TRUE), Some(FALSE)}
             /\ parsed[field] =
                   IF FlagMatches(field) = {} THEN None
                   ELSE Some(boolean_patterns[LastOf(FlagMatches(field))].value)
       /\ contains(Normalised, "not archived") => parsed.is_archived = Some(FALSE)
       /\ contains(Normalised, "not forked") => parsed.is_fork = Some(FALSE)
       /\ contains(Normalised, "original") => parsed.is_fork = Some(FALSE)
       /\ contains(Normalised, "without issues") => parsed.has_issues = Some(FALSE)
       /\ (contains(Normalised, "with issues") /\ ~contains(Normalised, "without issue"))
          => parsed.has_issues = Some(TRUE)

\* "archived" set is_archived and the later entry "not archived" overwrote it
C23_Witness ==
    /\ parse_outcome = "returned"
    /\ nl_query = "with issue not archived with wiki"
    /\ FlagMatches("is_archived") = {5, 6}
    /\ parsed.is_archived = Some(FALSE)
    /\ parsed.has_issues = Some(TRUE)
    /\ parsed.is_fork = None

\* what topic pattern k captures in the query, in the order of the text
Captured(k) == re_findall(topic_patterns[k], Normalised)

\* the first topic pattern, in table order, that captures the token
FirstTopicPattern(t) ==
    CHOOSE k \in 1..Len(topic_patterns) :
        /\ \E i \in 1..Len(Captured(k)) : Captured(k)[i] = t
        /\ \A j \in 1..(k - 1) : \A i \in 1..Len(Captured(j)) : Captured(j)[i] # t

\* the place of the first capture of the token by pattern k
FirstCapture(k, t) ==
    CHOOSE i \in 1..Len(Captured(k)) :
        Captured(k)[i] = t /\ \A j \in 1..(i - 1) : Captured(k)[j] # t

\* C24 as stated: the topics are listed in the order in which they first
\* occur in the text of the query.
C24_TextOrder ==
    parse_outcome = "returned"
    => \A e \in TopicExamples : nl_query = e[1] => parsed.topics = e[2]

\* C24: the topics hold no duplicate and only lower-case tokens, and
\* accumulate every capture of every topic pattern; they are ordered by the
\* first topic pattern, in table order, that captures them, and by the place
\* in the text among the captures of one pattern.
C24_TopicsPatternOrder ==
    parse_outcome = "returned"
    => LET topics == parsed.topics IN
       /\ \A i, j \in 1..Len(topics) : topics[i] = topics[j] => i = j
       /\ \A i \in 1..Len(topics) : lower(topics[i]) = topics[i]
       /\ {topics[i] : i \in 1..Len(topics)}
             = UNION {{Captured(k)[i] : i \in 1..Len(Captured(k))} :
                         k \in 1..Len(topic_patterns)}
       /\ \A i, j \in 1..Len(topics) :
             i < j
             => \/ FirstTopicPattern(topics[i]) < FirstTopicPattern(topics[j])
                \/ /\ FirstTopicPattern(topics[i]) = FirstTopicPattern(topics[j])
                   /\ FirstCapture(FirstTopicPattern(topics[i]), topics[i])
                         < FirstCapture(FirstTopicPattern(topics[i]), topics[j])

\* "redis" comes first in the text and "kafka" first in the topics
C24_Witness ==
    /\ parse_outcome = "returned"
    /\ nl_query = "using redis with kafka"
    /\ parsed.topics = <<"kafka", "redis">>

\* the repositories given to get_top_contributors
Ranked == repo_list[1].items

\* C25: get_top_contributors has one entry per repository identity, scored
\* stars + 2 * forks, for every input repository whether or not its
\* contributor count is known, sorted by score in non-increasing order and
\* truncated to 10.
C25_EveryRepoRanked ==
    top_contributors # None
    => LET top == top_contributors[1] IN
       /\ Len(top) <= TopContributors
       /\ \A i, j \in 1..Len(top) : top[i].repo_name = top[j].repo_name => i = j
       /\ \A i \in 1..Len(top) :
             \E r \in 1..Len(Ranked) :
                /\ Ranked[r].full_name = top[i].repo_name
                /\ top[i].score = Ranked[r].stargazers_count + 2 * Ranked[r].forks_count
       /\ \A i \in 1..(Len(top) - 1) : top[i].score >= top[i + 1].score
       /\ Cardinality({Ranked[r].full_name : r \in 1..Len(Ranked)}) <= TopContributors
          => \A r \in 1..Len(Ranked) :
                \E i \in 1..Len(top) : top[i].repo_name = Ranked[r].full_name

\* C26: with or without a GitHub token, search_trending_repos returns a list
\* of repository items, possibly empty, of at most max_results entries, and
\* never a value of another kind.
C26_AlwaysAList ==
    repo_list # None
    => /\ repo_list[1].type = "list"
       /\ Len(repo_list[1].items) <= search_call.max_results

\* the sources of the request whose slot counts in overall_score
Contributing == {source \in request.platforms : Truthy(Slot(trending_topic, source))}

\* sum(weight * score) / sum(weight) over the slots of the sources of S
SlotAverage(S) ==
    LET term(source) ==
            IF source \in S
            THEN RMul(Score(source, Slot(trending_topic, source).items), Weight(source))
            ELSE Zero
        weight(source) == IF source \in S THEN Weight(source) ELSE Zero
    IN IF S = {} THEN Zero
       ELSE RDiv(RAdd(RAdd(term("github"), term("twitter")), term("reddit")),
                 RAdd(RAdd(weight("github"), weight("twitter")), weight("reddit")))

\* C27: analyze_trending_topic dispatches exactly one fetch per enabled source
\* and none for a source that is not enabled; the slot of a source that is not
\* enabled stays at its initial empty list, and such a source has no weight and
\* no score in overall_score and no entry in platform_stats.
C27_Frame ==
    /\ analysis # "none"
       => \A source \in PlatformType :
             Cardinality({i \in 1..Len(tasks) : tasks[i].source = source})
                = IF source \in request.platforms THEN 1 ELSE 0
    /\ \A source \in PlatformType \ request.platforms :
          Slot(trending_topic, source) = ListValue(<<>>)
    /\ Scored => trending_topic.overall_score = Some(SlotAverage(Contributing))
    /\ summary # None
       => \A k \in 1..Len(summary[1].platform_stats) :
             summary[1].platform_stats[k].platform \in request.platforms

\* an analysis of github and twitter only returned with both slots filled
C27_Witness ==
    /\ Scored
    /\ summary # None
    /\ request.platforms = {"github", "twitter"}
    /\ Contributing = {"github", "twitter"}
    /\ Len(summary[1].platform_stats) = 2
    /\ trending_topic.reddit_data = ListValue(<<>>)

\* the qualifiers of the rendered query that start with a prefix
Qualifiers(text, prefix) ==
    {k \in 1..Len(text) : SubSeq(text, k, k + Len(prefix) - 1) = prefix}

\* C28: created and updated dates are extracted independently: "created since
\* YYYY" as the only date phrase populates created_after and leaves
\* updated_after unset, "updated since YYYY" populates updated_after and leaves
\* created_after unset, and the rendered query has only the created: or only
\* the pushed: qualifier.
C28_DatesIndependent ==
    parse_outcome = "returned"
    => /\ nl_query = "created since 2023"
          => /\ parsed.created_after = Some("2023-01-01")
             /\ parsed.updated_after = None
             /\ github_query # None
                => /\ Qualifiers(github_query[1], "created:") # {}
                   /\ Qualifiers(github_query[1], "pushed:") = {}
       /\ nl_query = "updated since 2023"
          => /\ parsed.updated_after = Some("2023-01-01")
             /\ parsed.created_after = None
             /\ github_query # None
                => /\ Qualifiers(github_query[1], "pushed:") # {}
                   /\ Qualifiers(github_query[1], "created:") = {}

\* C29: a span of the input is attributed to at most one field: a query that
\* is one numeric, date or flag phrase ("with more than 100 stars", "created in
\* 2023", "with issues", "with wiki") populates neither topics nor language
\* with a word of that phrase.
C29_SpanAttributedOnce ==
    (parse_outcome = "returned" /\ nl_query \in ConstraintPhrases)
    => /\ parsed.topics = <<>>
       /\ parsed.language = None

\* C30: get_trending_keywords returns at most 15 keywords in non-increasing
\* order of count, none of them a stop-word or of length 3 or less, and for a
\* non-empty list of posts every percentage lies between 0 and 100.
C30_KeywordShares ==
    trending_keywords # None
    => LET kw == trending_keywords[1] IN
       /\ Len(kw) <= TopKeywords
       /\ \A i \in 1..(Len(kw) - 1) : kw[i].count >= kw[i + 1].count
       /\ \A i \in 1..Len(kw) :
             kw[i].keyword \notin common_words /\ Len(kw[i].keyword) > ShortWord
       /\ posts # <<>>
          => \A i \in 1..Len(kw) :
                RLe(Zero, kw[i].percentage) /\ RLe(kw[i].percentage, Cap100)

====
